---- MODULE Spec2Model ----
(***************************************************************************)
(* HRIS REST API: the in-memory session manager                            *)
(* (controllers/session_manager.py) and the attendance endpoints           *)
(* (controllers/attendance.py: toggle, checkin, checkout) together with    *)
(* login/logout (controllers/auth.py).                                     *)
(*                                                                         *)
(* Time is an instant in whole seconds since 00:00:00 UTC of day 0.        *)
(* Timestamps are stored as naive UTC values.  Coordinates are strings as  *)
(* sent by the client; a parsed coordinate is an offset in kilometres on a *)
(* plane, and 0 is an unset (falsy) coordinate as in the Float fields.     *)
(***************************************************************************)
EXTENDS Integers, Sequences, FiniteSets, TLC

VARIABLES
    now,            \* the wall clock (an instant, seconds, UTC)
    tz_offset,      \* offset of the server's own zone: datetime.now() is now + tz_offset
    _sessions,      \* SessionManager._sessions: token -> [user_id, created_at, last_used]
    _lock,          \* SessionManager._lock: the thread that holds it, 0 when free
    ret,            \* the last call on the session manager and what it returned
    res_company,    \* the company's office coordinate: [latitude, longitude], 0 when unset
    hr_employee,    \* table hr.employee: id -> [user_id]
    hr_attendance,  \* table hr.attendance: id -> record
    resp,           \* the response to the HTTP request handled by the last step
    threads         \* requests in flight: thread -> what the request holds at its position

vars == <<now, tz_offset, _sessions, _lock, ret, res_company, hr_employee, hr_attendance, resp,
          threads>>

----------------------------------------------------------------------------
(* Bounds *)

MaxRecords == 2
MaxEmployees == 2

(* Program constants *)

DaySeconds == 86400
WIBOffset == 25200
_cleanup_interval == 86400
ToggleRadiusKm == 100
ToggleDefaultLat == 10
ToggleDefaultLon == 10
CheckinDefaultLat == 8
CheckinDefaultLon == 11
OfficeLocationDefaultLat == 8
OfficeLocationDefaultLon == 10
NoTime == -1
NoUser == 0

(* The instants the clock visits.  16:30 and 23:30 UTC of day 0 are on     *)
(* one UTC date and two Jakarta dates (23:30 and 06:30); 23:30 of day 0    *)
(* and 00:30 of day 1 are on two UTC dates and one Jakarta date; the last  *)
(* is 24 hours after the first.                                            *)
Instants == {59400, 84600, 88200, 145800}

(* The instants where the session manager is called directly: one second  *)
(* before, exactly at and one second after 24 hours from the first.        *)
SessionInstants == {59400, 84600, 145799, 145800, 145801}

(* The instants where requests overlap: one second apart.                  *)
ConcInstants == {59400, 59401}

ServerOffsets == {0, 25200}

Users == {1, 2}
Tokens == {"t1", "t2"}
Logins == {"", "alice", "bob"}
Passwords == {"", "pwa", "pwb"}

\* what the Authorization header of a request can be
AuthHeaders == {<<"", "">>, <<"Basic ", "t1">>} \cup {<<"Bearer ", t>> : t \in Tokens}

\* the session ids that log in, and the headers sent, where attendance is followed
Sids == {"t1"}
Headers == {<<"", "">>, <<"Bearer ", "t1">>}


\* JSON bodies of attendance requests
Bodies ==
    { [latitude |-> "10",  longitude |-> "10", camera_image |-> "img", selfie_photo |-> "img"],
      [latitude |-> "10",  longitude |-> "10", camera_image |-> "",    selfie_photo |-> ""],
      [latitude |-> "",    longitude |-> "",   camera_image |-> "img", selfie_photo |-> "img"],
      [latitude |-> "abc", longitude |-> "10", camera_image |-> "img", selfie_photo |-> "img"],
      [latitude |-> "13",  longitude |-> "10", camera_image |-> "img", selfie_photo |-> "img"],
      [latitude |-> "160", longitude |-> "10", camera_image |-> "img", selfie_photo |-> "img"] }

\* the bodies sent where the attendance cycle is followed: at the office, and far away
CycleBodies == {b \in Bodies : b.camera_image = "img" /\ b.latitude \in {"10", "160"}}

----------------------------------------------------------------------------
(* Dates and durations *)

\* the calendar date (day number) of instant t in the zone with offset off
DateOf(t, off) == (t + off) \div DaySeconds

\* datetime.now().date() / date.today(): the date on the server's own clock
ServerToday(t, off) == DateOf(t, off)

\* datetime.now(Asia/Jakarta): the wall clock reading in Jakarta
_get_current_datetime_local(t) == t + WIBOffset

\* .astimezone(pytz.UTC).replace(tzinfo=None): a Jakarta reading as naive UTC
ToNaiveUTC(local) == local - WIBOffset

\* the domain check_in >= 'D 00:00:00' and check_in < 'D+1 00:00:00' on the stored value
InDayWindow(check_in, day) ==
    /\ check_in >= day * DaySeconds
    /\ check_in < (day + 1) * DaySeconds

\* a decimal digit as a character
DigitChar(d) == CASE d = 0 -> "0" [] d = 1 -> "1" [] d = 2 -> "2" [] d = 3 -> "3"
                  [] d = 4 -> "4" [] d = 5 -> "5" [] d = 6 -> "6" [] d = 7 -> "7"
                  [] d = 8 -> "8" [] OTHER -> "9"

RECURSIVE Decimal(_)
Decimal(n) == IF n < 10 THEN <<DigitChar(n)>> ELSE Decimal(n \div 10) \o <<DigitChar(n % 10)>>

\* format spec 02d: at least two digits, zero padded
Pad2(n) == IF n < 10 THEN <<"0">> \o Decimal(n) ELSE Decimal(n)

\* a format that takes the minutes of the whole duration, not of the running hour
FormatWorkingHoursTotalMinutes(duration) ==
    LET hours == duration \div 3600
        minutes == duration \div 60
        seconds == duration % 60
    IN  Pad2(hours) \o <<":">> \o Pad2(minutes) \o <<":">> \o Pad2(seconds)

\* f"{hours:02d}:{minutes:02d}:{seconds:02d}" of a duration in seconds
FormatWorkingHours(duration) ==
    LET hours == duration \div 3600
        minutes == (duration % 3600) \div 60
        seconds == duration % 60
    IN  Pad2(hours) \o <<":">> \o Pad2(minutes) \o <<":">> \o Pad2(seconds)

DefaultWorkingHours == <<"0", "0", ":", "0", "0", ":", "0", "0">>

----------------------------------------------------------------------------
(* Session manager *)

EmptyMap == [k \in {} |-> 0]

\* a call on the session manager: its arguments, what it returned, the user the
\* token was bound to before it, and the call made just before it
NoCall ==
    [op |-> "", token |-> "", user_id |-> NoUser, value |-> NoUser, replaced |-> NoUser,
     fault |-> FALSE]

NoRet ==
    [op |-> "", token |-> "", user_id |-> NoUser, value |-> NoUser, replaced |-> NoUser,
     fault |-> FALSE, prev |-> NoCall]

BoundUser(s, session_token) == IF session_token \in DOMAIN s THEN s[session_token].user_id ELSE NoUser

Returned(r, s, op, session_token, user_id, value) ==
    [op |-> op, token |-> session_token, user_id |-> user_id, value |-> value,
     replaced |-> BoundUser(s, session_token), fault |-> FALSE,
     prev |-> [op |-> r.op, token |-> r.token, user_id |-> r.user_id, value |-> r.value,
               replaced |-> r.replaced, fault |-> r.fault]]

\* _cleanup_expired_sessions: drop the entries older than the interval
_cleanup_expired_sessions(s, t) ==
    LET expired_tokens == {k \in DOMAIN s : t - s[k].created_at > _cleanup_interval}
    IN  [k \in DOMAIN s \ expired_tokens |-> s[k]]

\* a store that binds the new user and keeps the created_at of an entry it replaces
store_session_keep_age(s, session_token, user_id, t) ==
    LET stored == [k \in DOMAIN s \cup {session_token} |->
                      IF k /= session_token THEN s[k]
                      ELSE [user_id |-> user_id,
                            created_at |-> IF k \in DOMAIN s THEN s[k].created_at ELSE t,
                            last_used |-> t]]
    IN  _cleanup_expired_sessions(stored, t)

\* a store that keeps the binding a token already has (dict.setdefault)
store_session_setdefault(s, session_token, user_id, t) ==
    LET stored == [k \in DOMAIN s \cup {session_token} |->
                      IF k \in DOMAIN s THEN s[k]
                      ELSE [user_id |-> user_id, created_at |-> t, last_used |-> t]]
    IN  _cleanup_expired_sessions(stored, t)

\* the session map after store_session(session_token, user_id) at instant t
store_session(s, session_token, user_id, t) ==
    LET stored == [k \in DOMAIN s \cup {session_token} |->
                      IF k = session_token
                      THEN [user_id |-> user_id, created_at |-> t, last_used |-> t]
                      ELSE s[k]]
    IN  _cleanup_expired_sessions(stored, t)

\* the condition under which get_user_id / get_session accept the entry
SessionLive(s, session_token, t) ==
    /\ session_token \in DOMAIN s
    /\ t - s[session_token].created_at < _cleanup_interval

\* what get_user_id(session_token) returns at instant t (NoUser for None)
get_user_id(s, session_token, t) ==
    IF SessionLive(s, session_token, t) THEN s[session_token].user_id ELSE NoUser

\* a lookup with a sliding expiry: a successful lookup restarts the entry's age
SessionsAfterLookupSliding(s, session_token, t) ==
    IF session_token \notin DOMAIN s THEN s
    ELSE IF t - s[session_token].created_at < _cleanup_interval
         THEN [s EXCEPT ![session_token].last_used = t, ![session_token].created_at = t]
         ELSE [k \in DOMAIN s \ {session_token} |-> s[k]]

\* a lookup that answers none for an expired entry and leaves it in the map
SessionsAfterLookupKeep(s, session_token, t) ==
    IF session_token \notin DOMAIN s THEN s
    ELSE IF t - s[session_token].created_at < _cleanup_interval
         THEN [s EXCEPT ![session_token].last_used = t]
         ELSE s

\* the session map after get_user_id / get_session(session_token) at instant t
SessionsAfterLookup(s, session_token, t) ==
    IF session_token \notin DOMAIN s THEN s
    ELSE IF t - s[session_token].created_at < _cleanup_interval
         THEN [s EXCEPT ![session_token].last_used = t]
         ELSE [k \in DOMAIN s \ {session_token} |-> s[k]]

\* a removal that, for a token that is not stored, drops some other entry
remove_session_popitem(s, session_token) ==
    IF session_token \in DOMAIN s THEN [k \in DOMAIN s \ {session_token} |-> s[k]]
    ELSE IF DOMAIN s = {} THEN s
    ELSE [k \in DOMAIN s \ {CHOOSE x \in DOMAIN s : TRUE} |-> s[k]]

\* a removal that clears the whole map
remove_session_clear(s, session_token) ==
    IF session_token \in DOMAIN s THEN EmptyMap ELSE s

\* the session map after remove_session(session_token)
remove_session(s, session_token) ==
    [k \in DOMAIN s \ {session_token} |-> s[k]]

get_session_count(s) == Cardinality(DOMAIN s)

----------------------------------------------------------------------------
(* Geofence *)

\* whether float(s) succeeds on a submitted coordinate
IsNumeric(s) == s \in {"10", "13", "160"}

\* float(s) of a numeric coordinate string
float(s) == CASE s = "10" -> 10 [] s = "13" -> 13 [] OTHER -> 160

\* company.latitude or <default> in toggle_checkin_checkout
ToggleOffice(company) ==
    [latitude  |-> IF company.latitude /= 0 THEN company.latitude ELSE ToggleDefaultLat,
     longitude |-> IF company.longitude /= 0 THEN company.longitude ELSE ToggleDefaultLon]

\* company.latitude or <default> in check_in
CheckinOffice(company) ==
    [latitude  |-> IF company.latitude /= 0 THEN company.latitude ELSE CheckinDefaultLat,
     longitude |-> IF company.longitude /= 0 THEN company.longitude ELSE CheckinDefaultLon]

\* company.latitude or <default> in get_office_location
OfficeLocation(company) ==
    [latitude  |-> IF company.latitude /= 0 THEN company.latitude
                   ELSE OfficeLocationDefaultLat,
     longitude |-> IF company.longitude /= 0 THEN company.longitude
                   ELSE OfficeLocationDefaultLon]

\* the square of the distance (km) between two parsed coordinates
DistanceSq(lat1, lon1, lat2, lon2) ==
    (lat1 - lat2) * (lat1 - lat2) + (lon1 - lon2) * (lon1 - lon2)

\* _is_within_radius: False when a coordinate does not parse
_is_within_radius(user_lat, user_lon, office, radius) ==
    IF IsNumeric(user_lat) /\ IsNumeric(user_lon)
    THEN DistanceSq(float(user_lat), float(user_lon), office.latitude, office.longitude)
             <= radius * radius
    ELSE FALSE

----------------------------------------------------------------------------
(* Authentication of a request *)

\* an authentication that looks the token up whatever the scheme of the header is
_get_user_from_session_any_scheme(s, auth_header, t) ==
    LET uid == get_user_id(s, auth_header[2], t)
    IN  IF uid \in Users THEN uid ELSE NoUser

\* _get_user_from_session: the user of the Bearer token, NoUser for None
_get_user_from_session(s, auth_header, t) ==
    IF auth_header[1] = "Bearer "
    THEN LET uid == get_user_id(s, auth_header[2], t)
         IN  IF uid \in Users THEN uid ELSE NoUser
    ELSE NoUser

\* the session map after _get_user_from_session (the lookup touches or evicts the entry)
SessionsAfterAuth(s, auth_header, t) ==
    IF auth_header[1] = "Bearer " THEN SessionsAfterLookup(s, auth_header[2], t) ELSE s

\* request.session.authenticate: the uid of the login when the password is right
authenticate(username, password) ==
    IF username = "alice" /\ password = "pwa" THEN 1
    ELSE IF username = "bob" /\ password = "pwb" THEN 2
    ELSE NoUser

----------------------------------------------------------------------------
(* Tables *)

\* hr.employee search([('user_id', '=', uid)])
EmployeesOf(emp, uid) == {i \in DOMAIN emp : emp[i].user_id = uid}

\* the employee ids a lookup-or-create for uid can yield (limit=1 names no order)
EmployeeChoices(emp, uid) ==
    IF EmployeesOf(emp, uid) = {} THEN {Len(emp) + 1} ELSE EmployeesOf(emp, uid)

\* the employee table once employee_id is known to exist for uid
WithEmployee(emp, uid, employee_id) ==
    IF employee_id \in DOMAIN emp THEN emp ELSE Append(emp, [user_id |-> uid])

\* toggle's search: the employee's records whose check_in is in today's window
ToggleTodayAttendance(att, employee_id, t, off) ==
    {i \in DOMAIN att : /\ att[i].employee_id = employee_id
                        /\ InDayWindow(att[i].check_in, ServerToday(t, off))}

\* check_in's search: the employee's open records whose check_in is in today's window
CheckinExistingAttendance(att, employee_id, t, off) ==
    {i \in DOMAIN att : /\ att[i].employee_id = employee_id
                        /\ att[i].check_out = NoTime
                        /\ InDayWindow(att[i].check_in, ServerToday(t, off))}

\* check_out's search: the employee's open records, latest check_in first, limit 1
CheckoutActiveAttendance(att, employee_id) ==
    LET open == {i \in DOMAIN att : att[i].employee_id = employee_id /\ att[i].check_out = NoTime}
    IN  {i \in open : \A j \in open : att[j].check_in <= att[i].check_in}

\* hr.attendance create(vals) at instant t
CreateAttendance(att, employee_id, t, latitude, longitude, photo) ==
    Append(att, [employee_id   |-> employee_id,
                 check_in      |-> ToNaiveUTC(_get_current_datetime_local(t)),
                 check_out     |-> NoTime,
                 working_hours |-> DefaultWorkingHours,
                 latitude      |-> latitude,
                 longitude     |-> longitude,
                 selfie_photo  |-> photo])

\* the working_hours string computed at check-out from the check_in that was read
WorkingHoursAt(check_in, t) ==
    FormatWorkingHours(ToNaiveUTC(_get_current_datetime_local(t)) - check_in)

\* an UPDATE ... WHERE id = %s without the check_out IS NULL condition
ToggleUpdateAnyRow(att, id, check_in, t) ==
    [att EXCEPT ![id].check_out = ToNaiveUTC(_get_current_datetime_local(t)),
                ![id].working_hours = WorkingHoursAt(check_in, t)]

\* toggle's UPDATE ... WHERE id = %s AND check_out IS NULL
ToggleUpdate(att, id, check_in, t) ==
    IF att[id].check_out = NoTime
    THEN [att EXCEPT ![id].check_out = ToNaiveUTC(_get_current_datetime_local(t)),
                     ![id].working_hours = WorkingHoursAt(check_in, t)]
    ELSE att

\* check_out's UPDATE ... WHERE id = %s
CheckoutUpdate(att, id, check_in, t) ==
    [att EXCEPT ![id].check_out = ToNaiveUTC(_get_current_datetime_local(t)),
                ![id].working_hours = WorkingHoursAt(check_in, t)]

\* the message of toggle's "already checked in and out" rejection
AlreadyDoneMessage ==
    "Anda sudah melakukan check-in dan check-out hari ini. Tunggu sampai besok untuk attendance berikutnya."

----------------------------------------------------------------------------
(* What a handler decides from what it reads.  An outcome carries the      *)
(* session map and employee table the handler leaves behind, and either a  *)
(* final status (plan "none") or the write it goes on to make.             *)

NoBody == [latitude |-> "", longitude |-> "", photo |-> ""]

\* a request that ends without writing hr.attendance: _error_response(message, status)
Rejected(endpoint, auth_header, user, s, emp, status, message) ==
    [endpoint |-> endpoint, scheme |-> auth_header[1], token |-> auth_header[2],
     user |-> user, sessions |-> s,
     employees |-> emp, plan |-> "none", employee_id |-> 0, id |-> 0,
     check_in |-> NoTime, stored |-> NoBody, status |-> status, message |-> message]

\* a request that goes on to write: the record id and check_in it read, what it stores
Planned(endpoint, auth_header, user, s, emp, plan, employee_id, id, check_in, stored) ==
    [endpoint |-> endpoint, scheme |-> auth_header[1], token |-> auth_header[2],
     user |-> user, sessions |-> s,
     employees |-> emp, plan |-> plan, employee_id |-> employee_id, id |-> id,
     check_in |-> check_in, stored |-> stored, status |-> 200, message |-> ""]

\* toggle_checkin_checkout from the geofence on, for the employee e it found or created
ToggleAs(s1, emp1, att, company, t, off, auth_header, body, user, e) ==
    LET today_attendance == ToggleTodayAttendance(att, e, t, off)
        stored == [latitude |-> body.latitude, longitude |-> body.longitude,
                   photo |-> body.camera_image]
    IN  IF ~(IsNumeric(body.latitude) /\ IsNumeric(body.longitude))
        THEN {Rejected("toggle", auth_header, user, s1, emp1, 500,
                       "Error validating location")}
        ELSE IF ~_is_within_radius(body.latitude, body.longitude,
                                   ToggleOffice(company), ToggleRadiusKm)
        THEN {Rejected("toggle", auth_header, user, s1, emp1, 400,
                       "Anda di luar area kantor")}
        ELSE IF today_attendance = {}
        THEN {Planned("toggle", auth_header, user, s1, emp1, "create", e, 0,
                      NoTime, stored)}
        ELSE { IF att[r].check_out = NoTime
               THEN Planned("toggle", auth_header, user, s1, emp1, "toggle_update",
                            e, r, att[r].check_in, NoBody)
               ELSE Rejected("toggle", auth_header, user, s1, emp1, 400,
                             AlreadyDoneMessage)
               : r \in today_attendance }

\* toggle_checkin_checkout up to its employee search: the rejections that come first
ToggleEarly(s, emp, t, auth_header, body) ==
    LET user == _get_user_from_session(s, auth_header, t)
        s1 == SessionsAfterAuth(s, auth_header, t)
    IN  IF user = NoUser THEN {Rejected("toggle", auth_header, user, s1, emp, 401, "Authentication required")}
        ELSE IF body.latitude = "" \/ body.longitude = ""
        THEN {Rejected("toggle", auth_header, user, s1, emp, 400,
                       "GPS coordinates are required for attendance")}
        ELSE IF body.camera_image = ""
        THEN {Rejected("toggle", auth_header, user, s1, emp, 400,
                       "Camera photo is required for attendance")}
        ELSE {}

\* toggle_checkin_checkout up to the statement that writes hr.attendance
ToggleOutcomes(s, emp, att, company, t, off, auth_header, body) ==
    LET user == _get_user_from_session(s, auth_header, t)
        s1 == SessionsAfterAuth(s, auth_header, t)
    IN  IF ToggleEarly(s, emp, t, auth_header, body) /= {}
        THEN ToggleEarly(s, emp, t, auth_header, body)
        ELSE UNION { ToggleAs(s1, WithEmployee(emp, user, e), att, company, t, off,
                              auth_header, body, user, e)
                     : e \in EmployeeChoices(emp, user) }

\* check_in's "only one employee per user": the others lose their user
UnlinkOthers(emp, uid, employee_id) ==
    [i \in DOMAIN emp |->
        IF i \in EmployeesOf(emp, uid) \ {employee_id} THEN [user_id |-> NoUser] ELSE emp[i]]

\* check_in from the geofence on, for the employee e it found or created
CheckInAs(s1, emp1, att, company, t, off, auth_header, body, user, e) ==
    LET parsed == IsNumeric(body.latitude) /\ IsNumeric(body.longitude)
        within_radius == _is_within_radius(body.latitude, body.longitude,
                                           CheckinOffice(company), ToggleRadiusKm)
        existing_attendance == CheckinExistingAttendance(att, e, t, off)
        stored == [latitude |-> body.latitude, longitude |-> body.longitude,
                   photo |-> body.selfie_photo]
    IN  IF parsed /\ ~within_radius
        THEN {Rejected("checkin", auth_header, user, s1, emp1, 400,
                       "Anda di luar area kantor")}
        ELSE IF existing_attendance /= {}
        THEN {Rejected("checkin", auth_header, user, s1, emp1, 400,
                       "Employee is already checked in today")}
        ELSE {Planned("checkin", auth_header, user, s1, emp1, "create", e, 0,
                      NoTime, stored)}

\* check_in up to the statement that writes hr.attendance
CheckInOutcomes(s, emp, att, company, t, off, auth_header, body) ==
    LET user == _get_user_from_session(s, auth_header, t)
        s1 == SessionsAfterAuth(s, auth_header, t)
    IN  IF user = NoUser THEN {Rejected("checkin", auth_header, user, s1, emp, 401, "Authentication required")}
        ELSE UNION { CheckInAs(s1, WithEmployee(UnlinkOthers(emp, user, e), user, e), att,
                               company, t, off, auth_header, body, user, e)
                     : e \in EmployeeChoices(emp, user) }

\* check_out's employee: the body's employee_id when it exists, else the user's
CheckoutEmployees(emp, uid, employee_id) ==
    IF employee_id /= 0 /\ employee_id \in DOMAIN emp THEN {employee_id}
    ELSE EmployeesOf(emp, uid)

\* check_out up to the statement that writes hr.attendance
CheckOutOutcomes(s, emp, att, t, auth_header, employee_id) ==
    LET user == _get_user_from_session(s, auth_header, t)
        s1 == SessionsAfterAuth(s, auth_header, t)
    IN  IF user = NoUser THEN {Rejected("checkout", auth_header, user, s1, emp, 401, "Authentication required")}
        ELSE IF CheckoutEmployees(emp, user, employee_id) = {}
        THEN {Rejected("checkout", auth_header, user, s1, emp, 404, "Employee not found")}
        ELSE UNION {
            IF CheckoutActiveAttendance(att, e) = {}
            THEN {Rejected("checkout", auth_header, user, s1, emp, 400,
                           "No active check-in found for today")}
            ELSE {Planned("checkout", auth_header, user, s1, emp, "update", e, r,
                          att[r].check_in, NoBody) : r \in CheckoutActiveAttendance(att, e)}
            : e \in CheckoutEmployees(emp, user, employee_id) }

\* the hr.attendance table after the write of outcome o at instant t
Written(o, att, t) ==
    CASE o.plan = "create" ->
            CreateAttendance(att, o.employee_id, t, o.stored.latitude, o.stored.longitude,
                             o.stored.photo)
      [] o.plan = "toggle_update" -> ToggleUpdate(att, o.id, o.check_in, t)
      [] o.plan = "update" -> CheckoutUpdate(att, o.id, o.check_in, t)
      [] OTHER -> att

\* the response of the request whose outcome is o, written at instant t on table att
Response(o, att, t) ==
    LET base == [endpoint |-> o.endpoint, scheme |-> o.scheme, token |-> o.token,
                 user |-> o.user,
                 status |-> o.status, message |-> o.message, action |-> "",
                 is_checked_in |-> FALSE, working_hours |-> <<>>, id |-> 0]
    IN  CASE o.plan = "create" ->
                [base EXCEPT !.message = IF o.endpoint = "toggle" THEN "Check in successful"
                                         ELSE "Check-in successful",
                             !.action = "check_in", !.is_checked_in = TRUE,
                             !.id = Len(att) + 1]
          [] o.plan = "toggle_update" ->
                IF att[o.id].check_out = NoTime
                THEN [base EXCEPT !.message = "Check out successful",
                                  !.action = "check_out", !.id = o.id,
                                  !.working_hours = WorkingHoursAt(o.check_in, t)]
                ELSE [base EXCEPT !.status = 500, !.message = "Failed to update checkout"]
          [] o.plan = "update" ->
                [base EXCEPT !.message = "Check-out successful", !.action = "check_out",
                             !.id = o.id]
          [] OTHER -> base

----------------------------------------------------------------------------
(* Initial state: an empty session map and empty tables *)

NoResp == [endpoint |-> "", scheme |-> "", token |-> "", user |-> NoUser, status |-> 0,
           message |-> "",
           action |-> "", is_checked_in |-> FALSE, working_hours |-> <<>>, id |-> 0]

Init ==
    /\ now = 59400
    /\ tz_offset \in ServerOffsets
    /\ _sessions = EmptyMap
    /\ _lock = 0
    /\ ret = NoRet
    /\ res_company = [latitude |-> 0, longitude |-> 0]
    /\ hr_employee = <<>>
    /\ hr_attendance = <<>>
    /\ resp = NoResp
    /\ threads = EmptyMap

\* time passes: the clock moves to a later instant of S
TickTo(S) ==
    /\ \E t \in S : t > now /\ now' = t
    /\ ret' = NoRet
    /\ resp' = NoResp
    /\ UNCHANGED <<tz_offset, _sessions, _lock, res_company, hr_employee, hr_attendance, threads>>

Tick == TickTo(Instants)

----------------------------------------------------------------------------
(* Requests handled one at a time *)

\* a whole attendance request: what it reads, then its write, at one instant
Handle(o) ==
    /\ o.plan = "create" => Len(hr_attendance) < MaxRecords
    /\ Len(o.employees) <= MaxEmployees
    /\ _sessions' = o.sessions
    /\ hr_employee' = o.employees
    /\ hr_attendance' = Written(o, hr_attendance, now)
    /\ resp' = Response(o, hr_attendance, now)
    /\ UNCHANGED <<now, tz_offset, _lock, ret, res_company, threads>>

\* POST /api/attendance/toggle
Toggle(auth_header, body) ==
    \E o \in ToggleOutcomes(_sessions, hr_employee, hr_attendance, res_company, now,
                            tz_offset, auth_header, body) : Handle(o)

\* POST /api/attendance/checkin
CheckIn(auth_header, body) ==
    \E o \in CheckInOutcomes(_sessions, hr_employee, hr_attendance, res_company, now,
                             tz_offset, auth_header, body) : Handle(o)

\* POST /api/attendance/checkout
CheckOut(auth_header, employee_id) ==
    \E o \in CheckOutOutcomes(_sessions, hr_employee, hr_attendance, now, auth_header,
                              employee_id) : Handle(o)

\* a login that stores the session token before it looks at what authenticate returned
LoginStoresFirst(username, password, sid) ==
    LET uid == authenticate(username, password)
        status == IF username = "" \/ password = "" THEN 400
                  ELSE IF uid = NoUser THEN 401 ELSE 200
    IN  /\ status = 200 /\ EmployeesOf(hr_employee, uid) = {} => Len(hr_employee) < MaxEmployees
        /\ hr_employee' = IF status = 200 /\ EmployeesOf(hr_employee, uid) = {}
                          THEN Append(hr_employee, [user_id |-> uid])
                          ELSE hr_employee
        /\ _sessions' = store_session(_sessions, sid, uid, now)
        /\ resp' = [NoResp EXCEPT !.endpoint = "login", !.status = status,
                                  !.message = IF status = 400
                                              THEN "Username and password are required"
                                              ELSE IF status = 401
                                              THEN "Invalid username or password"
                                              ELSE "Login successful",
                                  !.token = IF status = 200 THEN sid ELSE "",
                                  !.user = IF status = 200 THEN uid ELSE NoUser]
        /\ UNCHANGED <<now, tz_offset, _lock, ret, res_company, hr_attendance, threads>>

\* POST /api/auth/login
Login(username, password, sid) ==
    LET uid == authenticate(username, password)
        status == IF username = "" \/ password = "" THEN 400
                  ELSE IF uid = NoUser THEN 401 ELSE 200
    IN  /\ status = 200 /\ EmployeesOf(hr_employee, uid) = {} => Len(hr_employee) < MaxEmployees
        /\ hr_employee' = IF status = 200 /\ EmployeesOf(hr_employee, uid) = {}
                          THEN Append(hr_employee, [user_id |-> uid])
                          ELSE hr_employee
        /\ _sessions' = IF status = 200 THEN store_session(_sessions, sid, uid, now)
                        ELSE _sessions
        /\ resp' = [NoResp EXCEPT !.endpoint = "login", !.status = status,
                                  !.message = IF status = 400
                                              THEN "Username and password are required"
                                              ELSE IF status = 401
                                              THEN "Invalid username or password"
                                              ELSE "Login successful",
                                  !.token = IF status = 200 THEN sid ELSE "",
                                  !.user = IF status = 200 THEN uid ELSE NoUser]
        /\ UNCHANGED <<now, tz_offset, _lock, ret, res_company, hr_attendance, threads>>

\* POST /api/auth/logout
Logout(auth_header) ==
    /\ _sessions' = IF auth_header[1] = "Bearer "
                    THEN remove_session(_sessions, auth_header[2])
                    ELSE _sessions
    /\ resp' = [NoResp EXCEPT !.endpoint = "logout", !.status = 200,
                              !.message = "Logout successful",
                              !.scheme = auth_header[1], !.token = auth_header[2]]
    /\ UNCHANGED <<now, tz_offset, _lock, ret, res_company, hr_employee, hr_attendance, threads>>

Next ==
    \/ Tick
    \/ \E username \in Logins, password \in Passwords, sid \in Sids :
           Login(username, password, sid)
    \/ \E auth_header \in Headers : Logout(auth_header)
    \/ \E auth_header \in Headers, body \in CycleBodies : Toggle(auth_header, body)
    \/ \E auth_header \in Headers, body \in CycleBodies : CheckIn(auth_header, body)
    \/ \E auth_header \in Headers, employee_id \in 0..MaxEmployees :
           CheckOut(auth_header, employee_id)

Spec == Init /\ [][Next]_vars

----------------------------------------------------------------------------
(* The session manager called directly *)

CallStoreSession(session_token, user_id) ==
    /\ _sessions' = store_session(_sessions, session_token, user_id, now)
    /\ ret' = Returned(ret, _sessions, "store_session", session_token, user_id, NoUser)
    /\ UNCHANGED <<now, tz_offset, _lock, res_company, hr_employee, hr_attendance, resp, threads>>

CallGetUserId(session_token) ==
    /\ _sessions' = SessionsAfterLookup(_sessions, session_token, now)
    /\ ret' = Returned(ret, _sessions, "get_user_id", session_token, NoUser,
                       get_user_id(_sessions, session_token, now))
    /\ UNCHANGED <<now, tz_offset, _lock, res_company, hr_employee, hr_attendance, resp, threads>>

CallRemoveSession(session_token) ==
    /\ _sessions' = remove_session(_sessions, session_token)
    /\ ret' = Returned(ret, _sessions, "remove_session", session_token, NoUser, NoUser)
    /\ UNCHANGED <<now, tz_offset, _lock, res_company, hr_employee, hr_attendance, resp, threads>>

CallGetSessionCount ==
    /\ ret' = Returned(ret, _sessions, "get_session_count", "", NoUser,
                       get_session_count(_sessions))
    /\ UNCHANGED <<now, tz_offset, _lock, _sessions, res_company, hr_employee, hr_attendance,
                   resp, threads>>

TickSession == TickTo(SessionInstants)

NextSession ==
    \/ TickSession
    \/ \E session_token \in Tokens, user_id \in Users :
           CallStoreSession(session_token, user_id)
    \/ \E session_token \in Tokens : CallGetUserId(session_token)
    \/ \E session_token \in Tokens : CallRemoveSession(session_token)
    \/ CallGetSessionCount

SpecSession == Init /\ [][NextSession]_vars

----------------------------------------------------------------------------
(* Requests that overlap: each reads, and writes hr.attendance in a later  *)
(* step; every statement on the store takes effect at once.                *)

Threads == {1, 2}

\* what a request in flight keeps of its outcome: its locals, not the shared state
Pending(o) == [o EXCEPT !.sessions = EmptyMap, !.employees = <<>>]

PendingCreates == Cardinality({th \in DOMAIN threads : threads[th].plan = "create"})

\* a request arrives on thread th and runs up to its write
Begin(th, o) ==
    /\ th \notin DOMAIN threads
    /\ o.plan = "create" => Len(hr_attendance) + PendingCreates < MaxRecords
    /\ Len(o.employees) <= MaxEmployees
    /\ _sessions' = o.sessions
    /\ hr_employee' = o.employees
    /\ IF o.plan = "none"
       THEN /\ resp' = Response(o, hr_attendance, now)
            /\ threads' = threads
       ELSE /\ resp' = NoResp
            /\ threads' = [k \in DOMAIN threads \cup {th} |-> IF k = th THEN Pending(o) ELSE threads[k]]
    /\ UNCHANGED <<now, tz_offset, _lock, ret, res_company, hr_attendance>>

BeginToggle(th, auth_header, body) ==
    \E o \in ToggleOutcomes(_sessions, hr_employee, hr_attendance, res_company, now,
                            tz_offset, auth_header, body) : Begin(th, o)

BeginCheckIn(th, auth_header, body) ==
    \E o \in CheckInOutcomes(_sessions, hr_employee, hr_attendance, res_company, now,
                             tz_offset, auth_header, body) : Begin(th, o)

BeginCheckOut(th, auth_header, employee_id) ==
    \E o \in CheckOutOutcomes(_sessions, hr_employee, hr_attendance, now, auth_header,
                              employee_id) : Begin(th, o)

\* the request on thread th writes hr.attendance and answers
Finish(th) ==
    /\ th \in DOMAIN threads
    /\ hr_attendance' = Written(threads[th], hr_attendance, now)
    /\ resp' = Response(threads[th], hr_attendance, now)
    /\ threads' = [k \in DOMAIN threads \ {th} |-> threads[k]]
    /\ UNCHANGED <<now, tz_offset, _lock, _sessions, ret, res_company, hr_employee>>

TickConc == TickTo(ConcInstants)

ConcCredentials == {<<"alice", "pwa">>, <<"bob", "pwb">>}
ConcHeaders == {<<"Bearer ", "t1">>}
ConcBodies == {b \in Bodies : b.camera_image = "img" /\ b.latitude = "10"}

NextConc ==
    \/ TickConc
    \/ \E c \in ConcCredentials, sid \in Sids : Login(c[1], c[2], sid)
    \/ \E th \in Threads, auth_header \in ConcHeaders, body \in ConcBodies :
           BeginToggle(th, auth_header, body)
    \/ \E th \in Threads, auth_header \in ConcHeaders, body \in ConcBodies :
           BeginCheckIn(th, auth_header, body)
    \/ \E th \in Threads, auth_header \in ConcHeaders, employee_id \in 0..MaxEmployees :
           BeginCheckOut(th, auth_header, employee_id)
    \/ \E th \in Threads : Finish(th)

SpecConc == Init /\ [][NextConc]_vars

----------------------------------------------------------------------------
(* Requests with every kind of Authorization header *)

\* the instants where authentication is followed: a login, and the end of its 24 hours
AuthInstants == {59400, 145799, 145800}

TickAuth == TickTo(AuthInstants)

AuthCredentials == {<<"alice", "pwa">>}

NextAuth ==
    \/ TickAuth
    \/ \E c \in AuthCredentials, sid \in Tokens : Login(c[1], c[2], sid)
    \/ \E auth_header \in AuthHeaders : Logout(auth_header)
    \/ \E auth_header \in AuthHeaders, body \in ConcBodies : Toggle(auth_header, body)
    \/ \E auth_header \in AuthHeaders, body \in ConcBodies : CheckIn(auth_header, body)
    \/ \E auth_header \in AuthHeaders : CheckOut(auth_header, 0)

SpecAuth == Init /\ [][NextAuth]_vars

----------------------------------------------------------------------------
(* Requests with every kind of body *)

NextBodies ==
    \/ TickConc
    \/ \E c \in AuthCredentials, sid \in Sids : Login(c[1], c[2], sid)
    \/ \E auth_header \in ConcHeaders, body \in Bodies : Toggle(auth_header, body)
    \/ \E auth_header \in ConcHeaders, body \in Bodies : CheckIn(auth_header, body)
    \/ \E auth_header \in ConcHeaders : CheckOut(auth_header, 0)

SpecBodies == Init /\ [][NextBodies]_vars

----------------------------------------------------------------------------
(* Request threads calling the session manager, with its lock *)

\* what a request thread does with the session map: the four methods called directly,
\* a controller's _get_user_from_session, and GET /api/sessions/debug
LockOps == {"store_session", "get_user_id", "remove_session", "get_session_count",
            "_get_user_from_session", "debug_sessions"}

LockInstants == {59400, 145800}

\* the session manager method that the operation calls
MethodOf(op) ==
    IF op \in {"_get_user_from_session", "debug_sessions"} THEN "get_user_id" ELSE op

\* the session map after the body of method m has run at instant t
SessionsAfterCall(s, m, session_token, user_id, t) ==
    CASE m = "store_session" -> store_session(s, session_token, user_id, t)
      [] m \in {"get_user_id", "get_session"} -> SessionsAfterLookup(s, session_token, t)
      [] m = "remove_session" -> remove_session(s, session_token)
      [] OTHER -> s

\* what method m returns (NoUser for None; of get_session's session data, its user_id)
ValueOfCall(s, m, session_token, t) ==
    CASE m \in {"get_user_id", "get_session"} -> get_user_id(s, session_token, t)
      [] m = "get_session_count" -> get_session_count(s)
      [] OTHER -> NoUser

\* the body of the method inserts or deletes an entry of the map
InsertsOrDeletes(s, m, session_token, user_id, t) ==
    DOMAIN SessionsAfterCall(s, m, session_token, user_id, t) /= DOMAIN s

\* thread th ends its request
Ended(th) == [k \in DOMAIN threads \ {th} |-> threads[k]]

\* a request arrives on thread th; debug_sessions starts with len(_sessions) and
\* "token in _sessions", the others with a call of a session manager method
Call(th, op, session_token, user_id) ==
    /\ th \notin DOMAIN threads
    /\ threads' = [k \in DOMAIN threads \cup {th} |->
                      IF k = th
                      THEN [op |-> op, token |-> session_token, user_id |-> user_id,
                            pc |-> IF op = "debug_sessions" THEN "toread" ELSE "waiting",
                            stage |-> 1, seen |-> {}]
                      ELSE threads[k]]
    /\ UNCHANGED <<now, tz_offset, _sessions, _lock, ret, res_company, hr_employee,
                   hr_attendance, resp>>

\* with self._lock: the thread enters when the lock is free
Acquire(th) ==
    /\ th \in DOMAIN threads
    /\ threads[th].pc = "waiting"
    /\ _lock = 0
    /\ _lock' = th
    /\ threads' = [threads EXCEPT ![th].pc = "in"]
    /\ UNCHANGED <<now, tz_offset, _sessions, ret, res_company, hr_employee,
                   hr_attendance, resp>>

\* where the thread goes after its method returned value
AfterMethod(th, value) ==
    LET c == threads[th]
    IN  IF c.op = "_get_user_from_session" /\ value = NoUser
        THEN [threads EXCEPT ![th].pc = "toread"]
        ELSE IF c.op = "debug_sessions"
        THEN [threads EXCEPT ![th].pc = "toread", ![th].stage = 2]
        ELSE Ended(th)

\* a method body that returns without releasing the lock (acquire() with no release())
ReleaseHoldingLock(th) ==
    /\ th \in DOMAIN threads
    /\ threads[th].pc = "in"
    /\ LET c == threads[th]
           m == MethodOf(c.op)
           value == ValueOfCall(_sessions, m, c.token, now)
       IN  /\ _sessions' = SessionsAfterCall(_sessions, m, c.token, c.user_id, now)
           /\ ret' = Returned(ret, _sessions, m, c.token, c.user_id, value)
           /\ threads' = AfterMethod(th, value)
    /\ _lock' = _lock
    /\ UNCHANGED <<now, tz_offset, res_company, hr_employee, hr_attendance, resp>>

\* the body of the method runs and the with block ends: the lock is released
Release(th) ==
    /\ th \in DOMAIN threads
    /\ threads[th].pc = "in"
    /\ LET c == threads[th]
           m == MethodOf(c.op)
           value == ValueOfCall(_sessions, m, c.token, now)
       IN  /\ _sessions' = SessionsAfterCall(_sessions, m, c.token, c.user_id, now)
           /\ ret' = Returned(ret, _sessions, m, c.token, c.user_id, value)
           /\ threads' = AfterMethod(th, value)
    /\ _lock' = 0
    /\ UNCHANGED <<now, tz_offset, res_company, hr_employee, hr_attendance, resp>>

\* an exception is raised inside get_user_id's with block, before or after the body
\* changed the map
Fault(th) ==
    /\ th \in DOMAIN threads
    /\ threads[th].pc = "in"
    /\ MethodOf(threads[th].op) = "get_user_id"
    /\ _sessions' \in {_sessions, SessionsAfterLookup(_sessions, threads[th].token, now)}
    /\ threads' = [threads EXCEPT ![th].pc = "raised"]
    /\ UNCHANGED <<now, tz_offset, _lock, ret, res_company, hr_employee, hr_attendance,
                   resp>>

\* an exception handler that answers None and leaves the lock held (acquire() with
\* no finally)
UnwindHoldingLock(th) ==
    /\ th \in DOMAIN threads
    /\ threads[th].pc = "raised"
    /\ ret' = [Returned(ret, _sessions, MethodOf(threads[th].op), threads[th].token,
                        threads[th].user_id, NoUser) EXCEPT !.fault = TRUE]
    /\ threads' = AfterMethod(th, NoUser)
    /\ UNCHANGED <<now, tz_offset, _sessions, _lock, res_company, hr_employee,
                   hr_attendance, resp>>

\* the exception leaves the with block (the lock is released) and is caught:
\* except Exception ... return None
Unwind(th) ==
    /\ th \in DOMAIN threads
    /\ threads[th].pc = "raised"
    /\ _lock' = 0
    /\ ret' = [Returned(ret, _sessions, MethodOf(threads[th].op), threads[th].token,
                        threads[th].user_id, NoUser) EXCEPT !.fault = TRUE]
    /\ threads' = AfterMethod(th, NoUser)
    /\ UNCHANGED <<now, tz_offset, _sessions, res_company, hr_employee, hr_attendance,
                   resp>>

\* session_manager._sessions is read from outside the manager: no lock is taken
BeginRead(th) ==
    /\ th \in DOMAIN threads
    /\ threads[th].pc = "toread"
    /\ threads' = [threads EXCEPT ![th].pc = "reading", ![th].seen = DOMAIN _sessions]
    /\ UNCHANGED <<now, tz_offset, _sessions, _lock, ret, res_company, hr_employee,
                   hr_attendance, resp>>

\* the read ends; when the map changed size under it, the iteration gives the keys
\* or raises RuntimeError (dictionary changed size during iteration)
EndRead(th) ==
    /\ th \in DOMAIN threads
    /\ threads[th].pc = "reading"
    /\ \E outcome \in IF DOMAIN _sessions = threads[th].seen
                      THEN {"_sessions.keys"}
                      ELSE {"_sessions.keys", "RuntimeError"} :
           ret' = Returned(ret, _sessions, outcome, threads[th].token, NoUser,
                           Cardinality(DOMAIN _sessions))
    /\ threads' = IF threads[th].op = "debug_sessions" /\ threads[th].stage = 1
                  THEN [threads EXCEPT ![th].pc = "waiting"]
                  ELSE Ended(th)
    /\ UNCHANGED <<now, tz_offset, _sessions, _lock, res_company, hr_employee,
                   hr_attendance, resp>>

\* time passes while no request is in flight
TickLock == threads = EmptyMap /\ TickTo(LockInstants)

NextLock ==
    \/ TickLock
    \/ \E th \in Threads, op \in LockOps, session_token \in Sids :
           \E user_id \in IF op = "store_session" THEN Users ELSE {NoUser} :
               Call(th, op, session_token, user_id)
    \/ \E th \in Threads : Acquire(th)
    \/ \E th \in Threads : Release(th)
    \/ \E th \in Threads : Fault(th)
    \/ \E th \in Threads : Unwind(th)
    \/ \E th \in Threads : BeginRead(th)
    \/ \E th \in Threads : EndRead(th)

SpecLock == Init /\ [][NextLock]_vars

----------------------------------------------------------------------------
(* The attendance cycle *)

\* the calendar date of a stored (UTC) instant in UTC+7
WIBDate(t) == DateOf(t, WIBOffset)

\* the records of employee e whose check_in is on the UTC+7 date of instant t
RecordsOn(att, e, t) ==
    {i \in DOMAIN att : att[i].employee_id = e /\ WIBDate(att[i].check_in) = WIBDate(t)}

\* C1: for every employee and every UTC+7 calendar day there is at most one
\* attendance record whose check_in is on that day and whose check_out is unset.
C1_AtMostOneOpenRecordPerDay ==
    \A i, j \in DOMAIN hr_attendance :
        ( /\ hr_attendance[i].employee_id = hr_attendance[j].employee_id
          /\ hr_attendance[i].check_out = NoTime
          /\ hr_attendance[j].check_out = NoTime
          /\ WIBDate(hr_attendance[i].check_in) = WIBDate(hr_attendance[j].check_in) )
        => i = j

\* a toggle that passed authentication, the required fields and the geofence, and so
\* went on to decide between check-in, check-out and "already done"
ToggleDecided(r) ==
    /\ r.endpoint = "toggle"
    /\ r.message \in {"Check in successful", "Check out successful",
                      AlreadyDoneMessage,
                      "Failed to update checkout"}

\* the attendance table is the same but for row i, whose check_out and working_hours
\* are those of a check-out at instant t
ClosedAt(att, att2, i, t) ==
    /\ Len(att2) = Len(att)
    /\ \A k \in DOMAIN att : k /= i => att2[k] = att[k]
    /\ att2[i] = [att[i] EXCEPT !.check_out = t,
                                !.working_hours = FormatWorkingHours(t - att[i].check_in)]

\* C4: for one employee and one (UTC+7) day, a valid toggle with no record today
\* creates one and answers check_in with is_checked_in = true; with today's single
\* record open it sets check_out on that record and answers check_out with
\* is_checked_in = false and working_hours = check_out - check_in; with today's
\* single record closed it is rejected with 400 and changes no record.
C4_ToggleCycle ==
    [][ToggleDecided(resp') =>
        \A e \in EmployeesOf(hr_employee', resp'.user) :
            LET today == RecordsOn(hr_attendance, e, now)
            IN  /\ today = {} =>
                     /\ resp'.status = 200 /\ resp'.action = "check_in"
                     /\ resp'.is_checked_in
                     /\ Len(hr_attendance') = Len(hr_attendance) + 1
                     /\ SubSeq(hr_attendance', 1, Len(hr_attendance)) = hr_attendance
                     /\ hr_attendance'[Len(hr_attendance')].employee_id = e
                     /\ hr_attendance'[Len(hr_attendance')].check_in = now
                     /\ hr_attendance'[Len(hr_attendance')].check_out = NoTime
                /\ \A i \in today :
                     (today = {i} /\ hr_attendance[i].check_out = NoTime) =>
                         /\ resp'.status = 200 /\ resp'.action = "check_out"
                         /\ ~resp'.is_checked_in
                         /\ resp'.working_hours =
                                FormatWorkingHours(now - hr_attendance[i].check_in)
                         /\ ClosedAt(hr_attendance, hr_attendance', i, now)
                /\ \A i \in today :
                     (today = {i} /\ hr_attendance[i].check_out /= NoTime) =>
                         /\ resp'.status = 400
                         /\ hr_attendance' = hr_attendance]_vars

\* C5: once an employee has a record for today (UTC+7) with check_out set, every
\* further toggle, checkin or checkout request for that employee on that day is
\* rejected and creates or modifies no attendance record.
C5_CheckedOutIsTerminal ==
    [][(resp'.endpoint \in {"toggle", "checkin", "checkout"} /\ resp'.user /= NoUser) =>
        \A e \in EmployeesOf(hr_employee, resp'.user) :
            (\E i \in RecordsOn(hr_attendance, e, now) : hr_attendance[i].check_out /= NoTime)
            => \/ resp'.status /= 200 /\ hr_attendance' = hr_attendance
               \/ /\ resp'.id \in DOMAIN hr_attendance'
                  /\ hr_attendance'[resp'.id].employee_id /= e]_vars

\* C6: a checkin request for an employee who has an open record for today (UTC+7)
\* is rejected with status 400 and creates no attendance record.
C6_CheckinWhileCheckedIn ==
    [][(resp'.endpoint = "checkin" /\ resp'.user /= NoUser) =>
        \A e \in EmployeesOf(hr_employee, resp'.user) :
            (\E i \in RecordsOn(hr_attendance, e, now) : hr_attendance[i].check_out = NoTime)
            => resp'.status = 400 /\ hr_attendance' = hr_attendance]_vars

\* C7: a checkout request for an employee who has no attendance record for today
\* (UTC+7) is rejected and modifies no attendance record, also when the employee has
\* an open record left from an earlier day.
C7_CheckoutNeedsRecordToday ==
    [][resp'.endpoint = "checkout" =>
        /\ resp'.status /= 200 => hr_attendance' = hr_attendance
        /\ resp'.status = 200 =>
               RecordsOn(hr_attendance, hr_attendance[resp'.id].employee_id, now) /= {}]_vars

\* C8: a toggle finds the employee's record (and checks out or rejects) exactly when
\* the record's check_in is on the UTC+7 date of the instant of the toggle.
C8_ToggleDayIsWIB ==
    [][ToggleDecided(resp') =>
        \A e \in EmployeesOf(hr_employee', resp'.user) :
            (RecordsOn(hr_attendance, e, now) /= {}) <=> (resp'.action /= "check_in")]_vars

----------------------------------------------------------------------------
(* Overlapping requests *)

\* the existence check a request made before it creates a record
ExistenceCheck(o, att, t, off) ==
    IF o.endpoint = "toggle" THEN ToggleTodayAttendance(att, o.employee_id, t, off)
    ELSE CheckinExistingAttendance(att, o.employee_id, t, off)

\* C2: the existence check and the create of a check-in are one atomic unit: when a
\* request creates its record, the check it made still finds no record, so two
\* requests never both observe NoRecord and both create.
C2_CheckAndCreateAtomic ==
    [][\A th \in DOMAIN threads :
          (th \notin DOMAIN threads' /\ threads[th].plan = "create") =>
              ExistenceCheck(threads[th], hr_attendance, now, tz_offset) = {}]_vars

\* C3: once a record's check_out is set, no later or concurrent request changes its
\* check_in, check_out or working_hours.
C3_ClosedRecordImmutable ==
    [][\A i \in DOMAIN hr_attendance :
          hr_attendance[i].check_out /= NoTime =>
              /\ i \in DOMAIN hr_attendance'
              /\ hr_attendance'[i].check_in = hr_attendance[i].check_in
              /\ hr_attendance'[i].check_out = hr_attendance[i].check_out
              /\ hr_attendance'[i].working_hours = hr_attendance[i].working_hours]_vars

----------------------------------------------------------------------------
(* Sessions *)

\* C9: get_user_id(token) called immediately after store_session(token, user_id)
\* returns exactly that user_id, also when the token was bound to another user.
C9_LookupAfterStore ==
    (/\ ret.op = "get_user_id"
     /\ ret.prev.op = "store_session"
     /\ ret.prev.token = ret.token) => ret.value = ret.prev.user_id

\* a lookup that followed at once a store which replaced another user's binding
C9_Witness ==
    /\ ret.op = "get_user_id"
    /\ ret.prev.op = "store_session"
    /\ ret.prev.token = ret.token
    /\ ret.prev.replaced \notin {NoUser, ret.prev.user_id}
    /\ ret.value = ret.prev.user_id

\* C10: get_user_id(token) returns the bound user id if and only if an entry for the
\* token exists and now - created_at < 24 hours; a successful lookup sets last_used
\* and leaves created_at (and the binding) as they were.
C10_LookupIffFresh ==
    [][ret'.op = "get_user_id" =>
        LET tok == ret'.token
            fresh == /\ tok \in DOMAIN _sessions
                     /\ now - _sessions[tok].created_at < 24 * 3600
        IN  /\ fresh => /\ ret'.value = _sessions[tok].user_id
                        /\ ret'.value /= NoUser
                        /\ tok \in DOMAIN _sessions'
                        /\ _sessions'[tok].user_id = _sessions[tok].user_id
                        /\ _sessions'[tok].created_at = _sessions[tok].created_at
                        /\ _sessions'[tok].last_used = now
            /\ ~fresh => ret'.value = NoUser]_vars

\* a lookup accepted one second before the session's 24 hours are over, on a session
\* whose last_used has moved and whose created_at has not
C10_Witness ==
    /\ ret.op = "get_user_id"
    /\ ret.value /= NoUser
    /\ ret.token \in DOMAIN _sessions
    /\ _sessions[ret.token].last_used - _sessions[ret.token].created_at = 24 * 3600 - 1

\* C11: get_user_id(token) for a stored token with now - created_at >= 24 hours
\* returns none and removes exactly that entry (the session count drops by one), and
\* a lookup of the same token that follows a lookup answered none is answered none.
C11_ExpiredLookupPurges ==
    [][ret'.op = "get_user_id" =>
        LET tok == ret'.token
        IN  /\ (tok \in DOMAIN _sessions /\ now - _sessions[tok].created_at >= 24 * 3600) =>
                   /\ ret'.value = NoUser
                   /\ DOMAIN _sessions' = DOMAIN _sessions \ {tok}
                   /\ \A k \in DOMAIN _sessions' : _sessions'[k] = _sessions[k]
                   /\ get_session_count(_sessions') = get_session_count(_sessions) - 1
            /\ (ret.op = "get_user_id" /\ ret.token = tok /\ ret.value = NoUser) =>
                   ret'.value = NoUser]_vars

\* a second lookup answered none right after the lookup that purged the expired entry,
\* with another token's session still in the map
C11_Witness ==
    /\ ret.op = "get_user_id" /\ ret.value = NoUser
    /\ ret.prev.op = "get_user_id" /\ ret.prev.token = ret.token
    /\ ret.prev.value = NoUser /\ ret.prev.replaced /= NoUser
    /\ ret.token \notin DOMAIN _sessions
    /\ get_session_count(_sessions) = 1

----------------------------------------------------------------------------
(* Authentication of requests *)

\* the request that was answered presented a Bearer token that the session map held,
\* less than 24 hours old, when the request arrived
PresentedLiveSession(r) ==
    /\ r.scheme = "Bearer "
    /\ r.token \in DOMAIN _sessions
    /\ now - _sessions[r.token].created_at < 24 * 3600

\* C12: a toggle whose Authorization header is missing, is not a Bearer token, or
\* carries a token that is unknown, removed or expired is answered 401 and creates or
\* modifies no attendance or employee record.
C12_ToggleUnauthenticated ==
    [][(resp'.endpoint = "toggle" /\ ~PresentedLiveSession(resp')) =>
          /\ resp'.status = 401
          /\ hr_attendance' = hr_attendance
          /\ hr_employee' = hr_employee]_vars

\* a toggle answered 401 for a Bearer token that is not (or no longer) in the session
\* map, 24 hours after the first login, with an attendance record in the table
C12_Witness ==
    /\ resp.endpoint = "toggle" /\ resp.status = 401
    /\ resp.scheme = "Bearer " /\ resp.token \notin DOMAIN _sessions
    /\ now = 145800
    /\ hr_attendance /= <<>>

\* C13: a logout with Bearer token t removes t's session and no other; while t is
\* not in the session map get_user_id(t) is none and every protected request
\* presenting t is answered 401; only a successful login that stores t brings it back.
C13_LogoutEndsSession ==
    [][/\ (resp'.endpoint = "logout" /\ resp'.scheme = "Bearer ") =>
              /\ DOMAIN _sessions' = DOMAIN _sessions \ {resp'.token}
              /\ \A k \in DOMAIN _sessions' : _sessions'[k] = _sessions[k]
              /\ get_user_id(_sessions', resp'.token, now) = NoUser
       /\ \A t \in Tokens :
              (t \notin DOMAIN _sessions /\ t \in DOMAIN _sessions') =>
                  resp'.endpoint = "login" /\ resp'.status = 200 /\ resp'.token = t
       /\ (/\ resp'.endpoint \in {"toggle", "checkin", "checkout"}
           /\ resp'.scheme = "Bearer "
           /\ resp'.token \notin DOMAIN _sessions) =>
              /\ resp'.status = 401
              /\ get_user_id(_sessions, resp'.token, now) = NoUser]_vars

\* a logout of t1 has just been answered, on the day of the logins, and the session of
\* t2 is still in the map
C13_Witness ==
    /\ resp.endpoint = "logout" /\ resp.scheme = "Bearer " /\ resp.token = "t1"
    /\ "t1" \notin DOMAIN _sessions
    /\ "t2" \in DOMAIN _sessions
    /\ hr_attendance /= <<>>

----------------------------------------------------------------------------
(* The lock of the session manager *)

\* thread th is inside a with self._lock block whose body inserts or deletes an entry
Mutating(th) ==
    /\ threads[th].pc = "in"
    /\ InsertsOrDeletes(_sessions, MethodOf(threads[th].op), threads[th].token,
                        threads[th].user_id, now)

\* C14: every thread that reads or changes the session map holds the lock while it
\* does, so no thread reads or iterates the map while another thread is inserting or
\* deleting an entry.
C14_MapAccessUnderLock ==
    \A th \in DOMAIN threads :
        threads[th].pc \in {"in", "reading"} =>
            /\ _lock = th
            /\ \A other \in DOMAIN threads \ {th} : ~Mutating(other)

\* a thread is reading the map without the lock while another thread, holding the
\* lock, is inserting or deleting an entry
C14_Race ==
    \E th, other \in DOMAIN threads :
        /\ th /= other
        /\ threads[th].pc = "reading" /\ _lock /= th
        /\ Mutating(other)

\* C19: a lookup in which an exception was raised returns none, never a user id, and
\* the lock is held only by a thread that is still inside its with block, so it is
\* free again once the lookup has returned.
C19_LookupFaultReturnsNone ==
    /\ ret.fault => ret.op = "get_user_id" /\ ret.value = NoUser
    /\ _lock /= 0 => /\ _lock \in DOMAIN threads
                     /\ threads[_lock].pc \in {"in", "raised"}

\* a store_session has completed right after a lookup that raised inside the lock
C19_Witness ==
    /\ ret.prev.fault /\ ret.prev.op = "get_user_id" /\ ret.prev.value = NoUser
    /\ ret.op = "store_session"
    /\ _lock = 0

----------------------------------------------------------------------------
(* Bindings of tokens *)

\* C15: once a token is in the session map bound to user u, no login, lookup or
\* logout binds it to another user while the entry exists.
C15_TokenKeepsItsUser ==
    [][\A t \in DOMAIN _sessions :
          t \in DOMAIN _sessions' => _sessions'[t].user_id = _sessions[t].user_id]_vars

\* C16: store_session(token, user_id) on a token that is already stored replaces the
\* whole entry (the new user_id, created_at = last_used = now), and the entry of every
\* other token that is not expired keeps its user_id and created_at.
C16_StoreReplacesEntry ==
    [][(ret'.op = "store_session" /\ ret'.token \in DOMAIN _sessions) =>
          /\ ret'.token \in DOMAIN _sessions'
          /\ _sessions'[ret'.token] =
                 [user_id |-> ret'.user_id, created_at |-> now, last_used |-> now]
          /\ \A k \in DOMAIN _sessions \ {ret'.token} :
                 now - _sessions[k].created_at < 24 * 3600 =>
                     /\ k \in DOMAIN _sessions'
                     /\ _sessions'[k].user_id = _sessions[k].user_id
                     /\ _sessions'[k].created_at = _sessions[k].created_at]_vars

\* a store has just replaced another user's binding of the token, later than the
\* first instant, while another token's older entry is still in the map
C16_Witness ==
    /\ ret.op = "store_session"
    /\ ret.replaced \notin {NoUser, ret.user_id}
    /\ now > 59400
    /\ ret.token \in DOMAIN _sessions
    /\ _sessions[ret.token].created_at = now
    /\ \E k \in DOMAIN _sessions : k /= ret.token /\ _sessions[k].created_at < now

\* C17: right after a store_session call every entry of the session map satisfies
\* now - created_at < 24 hours, that is, get_user_id would accept it.
C17_NoExpiredEntryAfterStore ==
    ret.op = "store_session" =>
        \A k \in DOMAIN _sessions :
            /\ now - _sessions[k].created_at < 24 * 3600
            /\ get_user_id(_sessions, k, now) /= NoUser

\* C18: remove_session(token) returns without raising and leaves the map without the
\* token and otherwise as it was; for a token that is not stored, and so for a second
\* call, the map is unchanged.
C18_RemoveIdempotent ==
    [][ret'.op = "remove_session" =>
          /\ ~ret'.fault
          /\ DOMAIN _sessions' = DOMAIN _sessions \ {ret'.token}
          /\ \A k \in DOMAIN _sessions' : _sessions'[k] = _sessions[k]
          /\ ret'.token \notin DOMAIN _sessions => _sessions' = _sessions
          /\ (ret.op = "remove_session" /\ ret.token = ret'.token) => _sessions' = _sessions
      ]_vars

\* a second remove_session of the token right after the one that removed its entry,
\* with another token's entry in the map
C18_Witness ==
    /\ ret.op = "remove_session"
    /\ ret.prev.op = "remove_session" /\ ret.prev.token = ret.token
    /\ ret.prev.replaced /= NoUser
    /\ ret.replaced = NoUser
    /\ DOMAIN _sessions /= {}

----------------------------------------------------------------------------
(* Required fields of a check-in *)

\* the body has no GPS latitude or longitude, or no photo for the endpoint
LacksGpsOrPhoto(endpoint, body) ==
    \/ body.latitude = "" \/ body.longitude = ""
    \/ endpoint = "toggle" /\ body.camera_image = ""
    \/ endpoint = "checkin" /\ body.selfie_photo = ""

\* C20: a check-in request, by toggle or by /api/attendance/checkin, whose body lacks
\* the photo or the GPS latitude/longitude is rejected and the attendance table is the
\* same after the request as before it.
C20_CheckinNeedsGpsAndPhoto ==
    [][\A auth_header \in ConcHeaders, body \in Bodies :
          /\ (LacksGpsOrPhoto("toggle", body) /\ Toggle(auth_header, body)) =>
                 resp'.status /= 200 /\ hr_attendance' = hr_attendance
          /\ (LacksGpsOrPhoto("checkin", body) /\ CheckIn(auth_header, body)) =>
                 resp'.status /= 200 /\ hr_attendance' = hr_attendance]_vars

----------------------------------------------------------------------------
(* The geofence *)

\* C21: when the submitted latitude or longitude is not a number, a toggle request
\* and a /api/attendance/checkin request are both blocked and the attendance table is
\* left as it was.
C21_GeofenceFailsClosed ==
    [][\A auth_header \in ConcHeaders, body \in Bodies :
          ( /\ body.latitude /= "" /\ body.longitude /= ""
            /\ ~(IsNumeric(body.latitude) /\ IsNumeric(body.longitude))
            /\ (Toggle(auth_header, body) \/ CheckIn(auth_header, body)) )
          => resp'.status /= 200 /\ hr_attendance' = hr_attendance]_vars

\* the square of the distance (km) from the body's coordinates to an office
BodyDistanceSq(body, office) ==
    DistanceSq(float(body.latitude), float(body.longitude), office.latitude,
               office.longitude)

\* C22: a toggle or check-in is accepted only within 2 km of the office: at the office
\* (distance 0) an authenticated request is not turned away by the geofence, and
\* farther than 2 km it is rejected with status 400 and no record is written.
C22_GeofenceRadiusTwoKm ==
    [][\A auth_header \in ConcHeaders, body \in Bodies :
          (IsNumeric(body.latitude) /\ IsNumeric(body.longitude)) =>
              /\ (Toggle(auth_header, body) /\ resp'.user /= NoUser) =>
                   LET d2 == BodyDistanceSq(body, ToggleOffice(res_company))
                   IN  /\ d2 = 0 => resp'.message /= "Anda di luar area kantor"
                       /\ d2 > 2 * 2 => /\ resp'.status = 400
                                        /\ resp'.message = "Anda di luar area kantor"
                                        /\ hr_attendance' = hr_attendance
              /\ (CheckIn(auth_header, body) /\ resp'.user /= NoUser) =>
                   LET d2 == BodyDistanceSq(body, CheckinOffice(res_company))
                   IN  /\ d2 = 0 => resp'.message /= "Anda di luar area kantor"
                       /\ d2 > 2 * 2 => /\ resp'.status = 400
                                        /\ resp'.message = "Anda di luar area kantor"
                                        /\ hr_attendance' = hr_attendance]_vars

----------------------------------------------------------------------------
(* Working hours *)

\* instants that give durations with hours, minutes and seconds: 59 s, 8 h 30 min 15 s,
\* and a whole day
HoursInstants == {59400, 59459, 90015, 145800}

TickHours == TickTo(HoursInstants)

NextHours ==
    \/ TickHours
    \/ \E c \in AuthCredentials, sid \in Sids : Login(c[1], c[2], sid)
    \/ \E auth_header \in ConcHeaders, body \in ConcBodies : Toggle(auth_header, body)
    \/ \E auth_header \in ConcHeaders, body \in ConcBodies : CheckIn(auth_header, body)
    \/ \E auth_header \in ConcHeaders : CheckOut(auth_header, 0)

SpecHours == Init /\ [][NextHours]_vars

\* HH:MM:SS of d seconds, two digits each (d below 100 hours)
ClockString(d) ==
    LET HH == d \div 3600
        MM == (d % 3600) \div 60
        SS == d % 60
    IN  << DigitChar(HH \div 10), DigitChar(HH % 10), ":",
           DigitChar(MM \div 10), DigitChar(MM % 10), ":",
           DigitChar(SS \div 10), DigitChar(SS % 10) >>

\* C23: every checked-out record whose check_out is d >= 0 seconds after its check_in
\* stores working_hours = HH:MM:SS with HH = d div 3600, MM = (d mod 3600) div 60 and
\* SS = d mod 60, each zero-padded to two digits.
C23_WorkingHoursIsDuration ==
    \A i \in DOMAIN hr_attendance :
        LET d == hr_attendance[i].check_out - hr_attendance[i].check_in
        IN  (hr_attendance[i].check_out /= NoTime /\ d >= 0) =>
                hr_attendance[i].working_hours = ClockString(d)

\* one record was closed 8 h 30 min 15 s after its check-in and /checkout has just
\* closed another one after a different duration
C23_Witness ==
    /\ resp.status = 200
    /\ resp.endpoint = "checkout"
    /\ \E i, j \in DOMAIN hr_attendance :
           /\ i /= j
           /\ hr_attendance[j].check_out = now
           /\ hr_attendance[i].check_out - hr_attendance[i].check_in = 30615
           /\ hr_attendance[i].working_hours = <<"0", "8", ":", "3", "0", ":", "1", "5">>
           /\ hr_attendance[j].working_hours /= hr_attendance[i].working_hours

----------------------------------------------------------------------------
(* The office location *)

\* GET /api/attendance/office-location
get_office_location(auth_header) ==
    LET user == _get_user_from_session(_sessions, auth_header, now)
        office == OfficeLocation(res_company)
    IN  /\ _sessions' = SessionsAfterAuth(_sessions, auth_header, now)
        /\ resp' = IF user = NoUser
                   THEN [NoResp EXCEPT !.endpoint = "office-location", !.status = 401,
                                       !.message = "Authentication required",
                                       !.scheme = auth_header[1],
                                       !.token = auth_header[2]]
                   ELSE [endpoint |-> "office-location", scheme |-> auth_header[1],
                         token |-> auth_header[2], user |-> user, status |-> 200,
                         message |-> "Office location retrieved successfully from Odoo",
                         action |-> "", is_checked_in |-> FALSE, working_hours |-> <<>>,
                         id |-> 0, latitude |-> office.latitude,
                         longitude |-> office.longitude]
        /\ UNCHANGED <<now, tz_offset, _lock, ret, res_company, hr_employee,
                       hr_attendance, threads>>

NextOffice ==
    \/ TickConc
    \/ \E c \in AuthCredentials, sid \in Sids : Login(c[1], c[2], sid)
    \/ \E auth_header \in Headers, body \in CycleBodies : Toggle(auth_header, body)
    \/ \E auth_header \in Headers, body \in CycleBodies : CheckIn(auth_header, body)
    \/ \E auth_header \in Headers : get_office_location(auth_header)

SpecOffice == Init /\ [][NextOffice]_vars

\* C24: while the company has no latitude and longitude, toggle, /checkin and
\* GET /api/attendance/office-location do not fail, and the coordinate the GET reports
\* is the one toggle and /checkin measure the distance from.
C24_OneDefaultOffice ==
    [][\A auth_header \in Headers, body \in CycleBodies :
          (res_company.latitude = 0 /\ res_company.longitude = 0) =>
              /\ (Toggle(auth_header, body) \/ CheckIn(auth_header, body)
                    \/ get_office_location(auth_header)) => resp'.status /= 500
              /\ (get_office_location(auth_header) /\ resp'.status = 200) =>
                    /\ ToggleOffice(res_company) = CheckinOffice(res_company)
                    /\ [latitude |-> resp'.latitude, longitude |-> resp'.longitude]
                          = ToggleOffice(res_company)]_vars

----------------------------------------------------------------------------
(* Overlapping toggles *)

\* overlapping toggles and check-outs of one user
NextToggles ==
    \/ TickConc
    \/ \E c \in AuthCredentials, sid \in Sids : Login(c[1], c[2], sid)
    \/ \E th \in Threads, auth_header \in ConcHeaders, body \in ConcBodies :
           BeginToggle(th, auth_header, body)
    \/ \E th \in Threads, auth_header \in ConcHeaders : BeginCheckOut(th, auth_header, 0)
    \/ \E th \in Threads : Finish(th)

SpecToggles == Init /\ [][NextToggles]_vars

\* C25: when a toggle that read an open record comes to its UPDATE, it closes the record
\* (check_out and working_hours written, check_out reported) if the record is still
\* open, and otherwise it changes nothing and answers with an error: of two toggles
\* that read the same open record only the first one writes and reports a check_out.
C25_CheckoutWrittenOnce ==
    [][\A th \in Threads :
          (Finish(th) /\ threads[th].plan = "toggle_update") =>
              LET id == threads[th].id
              IN  IF hr_attendance[id].check_out = NoTime
                  THEN /\ resp'.status = 200 /\ resp'.action = "check_out"
                       /\ hr_attendance'[id].check_out /= NoTime
                       /\ hr_attendance'[id].working_hours = resp'.working_hours
                  ELSE /\ hr_attendance' = hr_attendance
                       /\ resp'.status >= 400
                       /\ resp'.action = ""]_vars

\* a toggle that read an open record has found it closed at its UPDATE and answered
\* with its error, after the clock moved past the stored check_out
C25_Witness ==
    /\ resp.endpoint = "toggle"
    /\ resp.status = 500
    /\ resp.message = "Failed to update checkout"
    /\ \E i \in DOMAIN hr_attendance :
           /\ hr_attendance[i].check_out /= NoTime
           /\ hr_attendance[i].check_out < now

----------------------------------------------------------------------------
(* Whose records a request writes *)

\* C26: every attendance record that a request creates or changes belongs to the
\* employee tied to the user the request authenticated as, whatever the body contains.
C26_WritesOwnEmployeeOnly ==
    [][\A i \in DOMAIN hr_attendance' :
          (i \notin DOMAIN hr_attendance \/ hr_attendance'[i] /= hr_attendance[i]) =>
              /\ resp'.user /= NoUser
              /\ hr_employee'[hr_attendance'[i].employee_id].user_id = resp'.user]_vars

----------------------------------------------------------------------------
(* The dashboard *)

\* a dashboard search whose window is the Jakarta date instead of the server's date
DashboardTodayAttendanceJakarta(att, employee_id, t, off) ==
    LET today == {i \in DOMAIN att : /\ att[i].employee_id = employee_id
                                     /\ InDayWindow(att[i].check_in, DateOf(t, WIBOffset))}
    IN  {i \in today : \A j \in today : att[j].check_in <= att[i].check_in}

\* get_dashboard_data's search: the employee's records in today's window, latest
\* check_in first, limit 1
DashboardTodayAttendance(att, employee_id, t, off) ==
    LET today == {i \in DOMAIN att : /\ att[i].employee_id = employee_id
                                     /\ InDayWindow(att[i].check_in, ServerToday(t, off))}
    IN  {i \in today : \A j \in today : att[j].check_in <= att[i].check_in}

\* the responses of get_dashboard_data for employee e: current_status.is_checked_in
DashboardResponses(att, t, off, auth_header, user, e) ==
    LET today_attendance == DashboardTodayAttendance(att, e, t, off)
        base == [NoResp EXCEPT !.endpoint = "dashboard", !.scheme = auth_header[1],
                               !.token = auth_header[2], !.user = user, !.status = 200,
                               !.message = "Dashboard data retrieved successfully"]
    IN  IF today_attendance = {} THEN {base}
        ELSE {[base EXCEPT !.is_checked_in = (att[r].check_out = NoTime), !.id = r]
              : r \in today_attendance}

\* GET /api/attendance/dashboard
get_dashboard_data(auth_header) ==
    LET user == _get_user_from_session(_sessions, auth_header, now)
    IN  /\ _sessions' = SessionsAfterAuth(_sessions, auth_header, now)
        /\ IF user = NoUser
           THEN /\ hr_employee' = hr_employee
                /\ resp' = [NoResp EXCEPT !.endpoint = "dashboard", !.status = 401,
                                          !.message = "Authentication required",
                                          !.scheme = auth_header[1],
                                          !.token = auth_header[2]]
           ELSE \E e \in EmployeeChoices(hr_employee, user) :
                    /\ Len(WithEmployee(hr_employee, user, e)) <= MaxEmployees
                    /\ hr_employee' = WithEmployee(hr_employee, user, e)
                    /\ resp' \in DashboardResponses(hr_attendance, now, tz_offset,
                                                    auth_header, user, e)
        /\ UNCHANGED <<now, tz_offset, _lock, ret, res_company, hr_attendance, threads>>

NextDashboard ==
    \/ Tick
    \/ \E c \in AuthCredentials, sid \in Sids : Login(c[1], c[2], sid)
    \/ \E auth_header \in Headers, body \in ConcBodies : Toggle(auth_header, body)
    \/ \E auth_header \in Headers, body \in ConcBodies : CheckIn(auth_header, body)
    \/ \E auth_header \in Headers : CheckOut(auth_header, 0)
    \/ \E auth_header \in Headers : get_dashboard_data(auth_header)

SpecDashboard == Init /\ [][NextDashboard]_vars

\* the plans a valid toggle with this header would have right after the step
NextTogglePlans(auth_header) ==
    {o.plan : o \in UNION {ToggleOutcomes(_sessions', hr_employee', hr_attendance',
                                          res_company', now', tz_offset', auth_header,
                                          body) : body \in ConcBodies}}

----------------------------------------------------------------------------
(* Lazy creation of the employee: the search and the create are two statements *)

\* the response of a successful login
LoginSuccessful(sid, uid) ==
    [NoResp EXCEPT !.endpoint = "login", !.status = 200, !.message = "Login successful",
                   !.token = sid, !.user = uid]

\* a request in flight between its hr.employee search and what follows it
Searched(endpoint, auth_header, body, user, emp) ==
    [endpoint |-> endpoint, auth_header |-> auth_header, body |-> body, user |-> user,
     seen |-> EmployeesOf(emp, user)]

\* login runs up to its hr.employee search; a refused login ends at once
LoginSearch(th, username, password, sid) ==
    /\ th \notin DOMAIN threads
    /\ IF username = "" \/ password = "" \/ authenticate(username, password) = NoUser
       THEN Login(username, password, sid)
       ELSE /\ threads' = [k \in DOMAIN threads \cup {th} |->
                              IF k = th
                              THEN Searched("login", <<"", sid>>, NoBody,
                                            authenticate(username, password), hr_employee)
                              ELSE threads[k]]
            /\ resp' = NoResp
            /\ UNCHANGED <<now, tz_offset, _sessions, _lock, ret, res_company,
                           hr_employee, hr_attendance>>

\* what ends toggle, check_in or the dashboard before the hr.employee search
EarlyRejections(endpoint, auth_header, body) ==
    IF endpoint = "toggle"
    THEN ToggleEarly(_sessions, hr_employee, now, auth_header, body)
    ELSE IF _get_user_from_session(_sessions, auth_header, now) = NoUser
    THEN {Rejected(endpoint, auth_header, NoUser,
                   SessionsAfterAuth(_sessions, auth_header, now), hr_employee, 401,
                   "Authentication required")}
    ELSE {}

\* toggle, check_in or the dashboard runs up to its hr.employee search
EmployeeSearch(th, endpoint, auth_header, body) ==
    /\ th \notin DOMAIN threads
    /\ _sessions' = SessionsAfterAuth(_sessions, auth_header, now)
    /\ IF EarlyRejections(endpoint, auth_header, body) /= {}
       THEN /\ \E o \in EarlyRejections(endpoint, auth_header, body) :
                   resp' = Response(o, hr_attendance, now)
            /\ threads' = threads
       ELSE /\ threads' = [k \in DOMAIN threads \cup {th} |->
                              IF k = th
                              THEN Searched(endpoint, auth_header, body,
                                            _get_user_from_session(_sessions, auth_header,
                                                                   now),
                                            hr_employee)
                              ELSE threads[k]]
            /\ resp' = NoResp
    /\ UNCHANGED <<now, tz_offset, _lock, ret, res_company, hr_employee, hr_attendance>>

\* the hr.employee table after the request's create, or after check_in's unlinking of
\* the other employees it found
EmployeesAfterSearch(emp, r, e) ==
    IF r.seen = {} THEN Append(emp, [user_id |-> r.user])
    ELSE IF r.endpoint = "checkin"
    THEN [i \in DOMAIN emp |-> IF i \in r.seen \ {e} THEN [user_id |-> NoUser] ELSE emp[i]]
    ELSE emp

\* the request on thread th creates the employee its search did not find, and runs on
\* to its end
EmployeeCreate(th) ==
    /\ th \in DOMAIN threads
    /\ LET r == threads[th]
       IN  /\ r.seen = {} => Len(hr_employee) < MaxEmployees
           /\ \E e \in IF r.seen = {} THEN {Len(hr_employee) + 1} ELSE r.seen :
                LET emp1 == EmployeesAfterSearch(hr_employee, r, e)
                IN  CASE r.endpoint = "login" ->
                            /\ hr_employee' = emp1
                            /\ _sessions' = store_session(_sessions, r.auth_header[2],
                                                          r.user, now)
                            /\ resp' = LoginSuccessful(r.auth_header[2], r.user)
                            /\ hr_attendance' = hr_attendance
                      [] r.endpoint = "dashboard" ->
                            /\ hr_employee' = emp1
                            /\ _sessions' = _sessions
                            /\ resp' \in DashboardResponses(hr_attendance, now, tz_offset,
                                                            r.auth_header, r.user, e)
                            /\ hr_attendance' = hr_attendance
                      [] OTHER ->
                            \E o \in IF r.endpoint = "toggle"
                                     THEN ToggleAs(_sessions, emp1, hr_attendance,
                                                   res_company, now, tz_offset,
                                                   r.auth_header, r.body, r.user, e)
                                     ELSE CheckInAs(_sessions, emp1, hr_attendance,
                                                    res_company, now, tz_offset,
                                                    r.auth_header, r.body, r.user, e) :
                                /\ o.plan = "create" => Len(hr_attendance) < MaxRecords
                                /\ hr_employee' = o.employees
                                /\ _sessions' = o.sessions
                                /\ hr_attendance' = Written(o, hr_attendance, now)
                                /\ resp' = Response(o, hr_attendance, now)
    /\ threads' = [k \in DOMAIN threads \ {th} |-> threads[k]]
    /\ UNCHANGED <<now, tz_offset, _lock, ret, res_company>>

LazyEndpoints == {"toggle", "checkin", "dashboard"}

\* a right and a wrong password for one user
LazyCredentials == {<<"alice", "pwa">>, <<"alice", "bad">>}

NextEmployees ==
    \/ \E th \in Threads, c \in LazyCredentials, sid \in Sids :
           LoginSearch(th, c[1], c[2], sid)
    \/ \E th \in Threads, endpoint \in LazyEndpoints, auth_header \in ConcHeaders,
          body \in ConcBodies : EmployeeSearch(th, endpoint, auth_header, body)
    \/ \E th \in Threads : EmployeeCreate(th)

SpecEmployees == Init /\ [][NextEmployees]_vars

\* C27: once no request is in flight, no user has more than one employee.
C27_OneEmployeePerUser ==
    threads = EmptyMap =>
        \A uid \in Users : Cardinality(EmployeesOf(hr_employee, uid)) <= 1

----------------------------------------------------------------------------
(* Where sessions come from *)

\* logins with right and wrong credentials, logouts and authenticated reads
NextLogin ==
    \/ TickAuth
    \/ \E username \in Logins, password \in Passwords, sid \in Tokens :
           Login(username, password, sid)
    \/ \E auth_header \in AuthHeaders : Logout(auth_header)
    \/ \E auth_header \in AuthHeaders : get_dashboard_data(auth_header)

SpecLogin == Init /\ [][NextLogin]_vars

\* C29: a token enters the session map, or changes its user, only in a successful login
\* that returns this token; a successful login leaves its token bound to the user id it
\* authenticated; a refused login leaves the session map as it was.
C29_SessionsOnlyFromLogin ==
    [][/\ \A session_token \in DOMAIN _sessions' :
             (\/ session_token \notin DOMAIN _sessions
              \/ _sessions'[session_token].user_id /= _sessions[session_token].user_id) =>
                 /\ resp'.endpoint = "login" /\ resp'.status = 200
                 /\ resp'.token = session_token
       /\ (resp'.endpoint = "login" /\ resp'.status = 200) =>
             /\ resp'.token \in DOMAIN _sessions'
             /\ resp'.user \in Users
             /\ _sessions'[resp'.token].user_id = resp'.user
       /\ (resp'.endpoint = "login" /\ resp'.status /= 200) => _sessions' = _sessions]_vars

\* a login has just been refused while the token of bob's earlier login is stored
C29_Witness ==
    /\ resp.endpoint = "login"
    /\ resp.status = 401
    /\ "t1" \in DOMAIN _sessions
    /\ _sessions["t1"].user_id = 2

----------------------------------------------------------------------------
(* The session manager's methods called by overlapping threads *)

SessionMethods == {"store_session", "get_user_id", "get_session", "remove_session",
                   "get_session_count"}

\* an exception is raised inside the with block of one of the other methods, before or
\* after the body changed the map; get_session_count lets it through to its caller,
\* the others catch it outside the with block
FaultElsewhere(th) ==
    /\ th \in DOMAIN threads
    /\ threads[th].pc = "in"
    /\ MethodOf(threads[th].op) /= "get_user_id"
    /\ _sessions' \in {_sessions,
                      SessionsAfterCall(_sessions, MethodOf(threads[th].op),
                                        threads[th].token, threads[th].user_id, now)}
    /\ threads' = [threads EXCEPT ![th].pc = "raised"]
    /\ UNCHANGED <<now, tz_offset, _lock, ret, res_company, hr_employee, hr_attendance,
                   resp>>

\* the user a stored session is bound to
CallUsers == {1}

NextCalls ==
    \/ \E th \in Threads, op \in SessionMethods, session_token \in Sids :
           \E user_id \in IF op = "store_session" THEN CallUsers ELSE {NoUser} :
               Call(th, op, session_token, user_id)
    \/ \E th \in Threads : Acquire(th)
    \/ \E th \in Threads : Release(th)
    \/ \E th \in Threads : Fault(th)
    \/ \E th \in Threads : FaultElsewhere(th)
    \/ \E th \in Threads : Unwind(th)

\* a thread inside a with block runs on to its end; a thread blocked in acquire() gets
\* the lock when it is released again and again
SpecCalls ==
    /\ Init /\ [][NextCalls]_vars
    /\ \A th \in Threads : /\ SF_vars(Acquire(th))
                           /\ WF_vars(Release(th))
                           /\ WF_vars(Unwind(th))

\* C30: the lock is held only by a thread that is inside a call, so it is free whenever
\* no call is in progress, and every call that a thread has started eventually returns.
C30_EveryCallReturns ==
    /\ [](\/ _lock = 0
          \/ /\ _lock \in DOMAIN threads
             /\ threads[_lock].pc \in {"in", "raised"})
    /\ \A th \in Threads : (th \in DOMAIN threads) ~> (th \notin DOMAIN threads)

\* a call that raised inside its with block has returned, the lock is free and the
\* other thread is waiting for it
C30_Witness ==
    /\ ret.fault
    /\ ret.op = "store_session"
    /\ _lock = 0
    /\ \E th \in DOMAIN threads : threads[th].pc = "waiting"

====
